---- MODULE Spec2Model ----
(***************************************************************************)
(* State-machine model of BluetoothService                                 *)
(* (src/services/bluetoothService.ts): the connect() sequence, user- and   *)
(* peer-initiated disconnect, the on-demand heart-rate request registry    *)
(* with its per-request deadline timers, and the heart-rate notification   *)
(* handler.  One action is one run-to-completion step of the JavaScript    *)
(* event loop: a public method call up to its first await, the resumption  *)
(* of connect() after an await, a timer callback, or the dispatch of one   *)
(* DOM event to the listeners registered for it.                           *)
(*                                                                         *)
(* The repository holds further versions of the class (src/unnamed/        *)
(* part_002 with RR-interval and glucose decoding, part_004 without the    *)
(* stabilization delay); the variable "version" selects whose connect()    *)
(* and disconnect() run.  Six specifications:                              *)
(*   Spec / FairSpec  bluetoothService.ts with its request registry, one   *)
(*                    connect() call at a time;                            *)
(*   ConnSpec         connect() and disconnect() of the three versions,    *)
(*                    connect() calls may overlap, each call's steps are   *)
(*                    recorded;                                            *)
(*   DecodeSpec       the notification handlers of bluetoothService.ts and *)
(*                    part_002 on one buffer;                              *)
(*   UISpec           the callbacks App.tsx hands to the service: the      *)
(*                    rrBuffer window and the variability it displays;     *)
(*   SessionSpec      Spec with the requests that outlive their session    *)
(*                    recorded;                                            *)
(*   AppSpec          the App component of part_005 driving the service:   *)
(*                    its effect, connectDevice() and measureHeartRate().  *)
(***************************************************************************)
EXTENDS Integers, Sequences, FiniteSets, TLC

\* ------------------------------------------------------------------ bounds
MaxReq == 3          \* on-demand requests issued in one behaviour
MaxListeners == 2    \* value-changed listeners accumulated on one characteristic
MaxPush == 22        \* inter-beat intervals delivered to the UI in one behaviour
MaxPattern == 3      \* length of the repeating pattern the intervals follow
MaxBody == 5         \* bytes after the flags byte in a decoded notification

\* ------------------------------------------------------- program constants
GlucoseOffset == 10  \* value.getUint8(10) of handleGlucoseValueChanged
WindowSize == 20     \* if (newBuff.length > 20) newBuff.shift()
DefaultHrv == 45     \* DEFAULT_METRICS.hrv

\* ------------------------------------------------------- input domains
Req == 1..MaxReq
GattDevices == {"d1"}                    \* peripherals exposing a GATT server
Devices == GattDevices \cup {"d0"}       \* "d0": a device whose gatt is undefined
Calls == {"c1", "c2"}                    \* connect() calls that can be in flight
Caller == "c1"                           \* the call slot of a caller that awaits each connect()
\* the versions of the service class in the repository
Versions == {"bluetoothService", "part_002", "part_004"}
NoDevice == "none"                       \* this.device / this.server === null

HasGatt(d) == d \in GattDevices

\* Notification payloads (event.target.value): empty, flags only, 8-bit bpm,
\* 16-bit flag with a truncated bpm, 16-bit bpm; and an event without a value.
Payloads == {<<>>, <<0>>, <<0, 75>>, <<1, 75>>, <<1, 75, 1>>}
Events == {[hasValue |-> TRUE, value |-> v] : v \in Payloads}
            \cup {[hasValue |-> FALSE, value |-> <<>>]}

\* ------------------------------------------------------------------ state
VARIABLES
  bluetooth,                 \* navigator.bluetooth is present
  device,                    \* this.device
  server,                    \* this.server (named by its device)
  connected,                 \* device.gatt.connected, per device
  disconnectListeners,       \* devices carrying this.disconnectListener
  hrListeners,               \* 'characteristicvaluechanged' listeners per device
  pendingHeartRateRequests,  \* this.pendingHeartRateRequests (resolvers, by request)
  timers,                    \* requests whose setTimeout timer is still armed
  promise,                   \* per request: the promise returned to the caller
  pc,                        \* per connect() call: where it is suspended
  op,                        \* the step that ran last
  out,                       \* observer calls and settlements made by that step
  version,                   \* which version of the service class runs
  glListeners,               \* glucose 'characteristicvaluechanged' listeners per device
  awaited,                   \* per connect() call: the device whose gatt.connect() it awaits
  trail,                     \* history: per connect() call, the steps it has completed
  ready,                     \* history: a connect() returned with its session up, no teardown since
  cancelled,                 \* history: a connect() was rejected at the chooser
  orphaned,                  \* history: requests that were pending while no session was up
  notification,              \* decoder runs: the event handed to the handler
  decoded,                   \* decoder runs: what the handler did with it
  isConnected,               \* UI: connectionState.isConnected
  rrBuffer,                  \* UI: the rrBuffer state (intervals in ms)
  hrv,                       \* UI: metrics.hrv, the displayed variability
  stream,                    \* UI runs: the pattern the delivered intervals repeat
  arrivals,                  \* history: every interval delivered so far, in order
  isConnecting,              \* UI: the isConnecting state (connect button busy)
  scanningHeartRate,         \* UI: the scanningHeartRate state (heart-rate card busy)
  effectDep                  \* UI: connectionState.isConnected of the render whose effect ran last

vars == <<bluetooth, device, server, connected, disconnectListeners, hrListeners,
          pendingHeartRateRequests, timers, promise, pc, op, out,
          version, glListeners, awaited, trail, ready, cancelled,
          notification, decoded, isConnected, rrBuffer, hrv, stream, arrivals,
          orphaned, isConnecting, scanningHeartRate, effectDep>>

envVars == <<bluetooth, version>>
connVars == <<device, server, connected, disconnectListeners, hrListeners,
              glListeners, pc, awaited>>
regVars == <<pendingHeartRateRequests, timers, promise>>
histVars == <<trail, ready, cancelled, orphaned>>
decVars == <<notification, decoded>>
busyVars == <<isConnecting, scanningHeartRate, effectDep>>
uiVars == <<isConnected, rrBuffer, hrv, stream, arrivals, busyVars>>
auxVars == <<histVars, decVars, uiVars>>

\* ------------------------------------------------------- effect records
Eff(kind, r, hr, err) == [kind |-> kind, req |-> r, hr |-> hr, err |-> err]
EffDisconnect == Eff("onDisconnect", 0, -1, "")
EffHeartRate(hr) == Eff("onHeartRateChange", 0, hr, "")
EffResolve(r, hr) == Eff("resolve", r, hr, "")
EffReject(r, err) == Eff("reject", r, -1, err)
EffThrow(err) == Eff("throw", 0, -1, err)
EffReturn == Eff("return", 0, -1, "")
EffHandler == Eff("handleDisconnection", 0, -1, "")


\* ------------------------------------------------------- promises
Unused == [state |-> "unused", value |-> -1, error |-> "", calls |-> 0]
Created == [state |-> "pending", value |-> -1, error |-> "", calls |-> 0]

\* resolve(hr) of the promise executor: only the first settlement takes effect
PromiseResolve(p, hr) ==
  IF p.state = "pending"
  THEN [state |-> "resolved", value |-> hr, error |-> "", calls |-> p.calls + 1]
  ELSE [p EXCEPT !.calls = @ + 1]

\* reject(new Error(err)) of the promise executor
PromiseReject(p, err) ==
  IF p.state = "pending"
  THEN [state |-> "rejected", value |-> -1, error |-> err, calls |-> p.calls + 1]
  ELSE [p EXCEPT !.calls = @ + 1]

\* ------------------------------------------------------- array and timer helpers
\* Array.prototype.indexOf: 0-based position of the first occurrence, or -1
indexOf(list, r) ==
  IF \E i \in 1..Len(list) : list[i] = r
  THEN (CHOOSE i \in 1..Len(list) :
          list[i] = r /\ \A j \in 1..(i - 1) : list[j] # r) - 1
  ELSE -1

\* Array.prototype.splice(index, 1) for a 0-based index >= 0
splice(list, index) ==
  [i \in 1..(Len(list) - 1) |-> IF i <= index THEN list[i] ELSE list[i + 1]]

\* (mutation: the deadline timer is never started)
setTimeout_none(T, r) == T

\* setTimeout(..., 5000): the timer of request r becomes armed
setTimeout(T, r) == T \cup {r}

\* (mutation: the timer is left armed)
clearTimeout_kept(T, r) == T

\* clearTimeout(timer): the timer of request r can no longer fire
clearTimeout(T, r) == T \ {r}

\* ------------------------------------------------------- payload decoding
\* value.getUint8(0) / getUint8(1) / getUint16(1, true) raise RangeError
\* when the read runs past the end of the DataView
DecodeThrows(value) ==
  \/ Len(value) < 1
  \/ value[1] % 2 = 1 /\ Len(value) < 3
  \/ value[1] % 2 = 0 /\ Len(value) < 2

\* the heartRate computed from flags bit 0 (16-bit little endian or 8-bit)
DecodeHeartRate(value) ==
  IF value[1] % 2 = 1 THEN value[2] + 256 * value[3] ELSE value[2]

\* ------------------------------------------------------- request registry
\* The registry part of the state, threaded through the handlers.
Registry ==
  [pending |-> pendingHeartRateRequests, timers |-> timers,
   promise |-> promise, out |-> <<>>]

\* this.device && this.device.gatt?.connected
IsConnected(dev, conn) == dev # NoDevice /\ HasGatt(dev) /\ conn[dev]

\* (mutation: only the device handle is tested, not gatt.connected)
CanRequest_deviceOnly(dev, conn) == dev # NoDevice

\* the guard of requestHeartRate(): a device is set and its GATT server is connected
CanRequest(dev, conn) == IsConnected(dev, conn)

\* (mutation: the entry is not removed from the list)
timeoutCallback_noSplice(R, r) ==
  [R EXCEPT !.promise[r] = PromiseReject(@, "Timeout"),
            !.out = Append(@, EffReject(r, "Timeout"))]

\* (mutation: the whole list is dropped instead of one entry)
timeoutCallback_clearAll(R, r) ==
  [R EXCEPT !.pending = <<>>,
            !.promise[r] = PromiseReject(@, "Timeout"),
            !.out = Append(@, EffReject(r, "Timeout"))]

\* the setTimeout callback of request r
timeoutCallback(R, r) ==
  LET index == indexOf(R.pending, r) IN
  [R EXCEPT !.pending = IF index > -1 THEN splice(@, index) ELSE @,
            !.promise[r] = PromiseReject(@, "Timeout"),
            !.out = Append(@, EffReject(r, "Timeout"))]

\* (mutation: the resolver forgets clearTimeout)
resolver_noClearTimeout(R, r, hr) ==
  [R EXCEPT !.promise[r] = PromiseResolve(@, hr),
            !.out = Append(@, EffResolve(r, hr))]

\* the resolver closure of request r
resolver(R, r, hr) ==
  [R EXCEPT !.timers = clearTimeout(@, r),
            !.promise[r] = PromiseResolve(@, hr),
            !.out = Append(@, EffResolve(r, hr))]

\* (mutation: only the oldest request is resolved)
forEachResolve_first(R, requests, hr) ==
  IF requests = <<>> THEN R ELSE resolver(R, Head(requests), hr)

\* requests.forEach(resolve => resolve(heartRate))
RECURSIVE forEachResolve(_, _, _)
forEachResolve(R, requests, hr) ==
  IF requests = <<>> THEN R
  ELSE forEachResolve(resolver(R, Head(requests), hr), Tail(requests), hr)

\* (mutation: the pending requests are resolved before the observer is told)
handleHeartRateValueChanged_resolveFirst(R, hasValue, value) ==
  IF ~hasValue THEN R
  ELSE IF DecodeThrows(value) THEN [R EXCEPT !.out = Append(@, EffThrow("RangeError"))]
  ELSE
    LET heartRate == DecodeHeartRate(value)
        R1 == IF Len(R.pending) > 0
              THEN forEachResolve([R EXCEPT !.pending = <<>>], R.pending, heartRate)
              ELSE R
    IN [R1 EXCEPT !.out = Append(@, EffHeartRate(heartRate))]

\* (mutation: the pending list is not cleared before the resolvers run)
handleHeartRateValueChanged_noClear(R, hasValue, value) ==
  IF ~hasValue THEN R
  ELSE IF DecodeThrows(value) THEN [R EXCEPT !.out = Append(@, EffThrow("RangeError"))]
  ELSE
    LET heartRate == DecodeHeartRate(value)
        R1 == [R EXCEPT !.out = Append(@, EffHeartRate(heartRate))]
    IN IF Len(R1.pending) > 0
       THEN forEachResolve(R1, R1.pending, heartRate)
       ELSE R1

\* one invocation of handleHeartRateValueChanged(event)
handleHeartRateValueChanged(R, hasValue, value) ==
  IF ~hasValue THEN R
  ELSE IF DecodeThrows(value) THEN [R EXCEPT !.out = Append(@, EffThrow("RangeError"))]
  ELSE
    LET heartRate == DecodeHeartRate(value)
        R1 == [R EXCEPT !.out = Append(@, EffHeartRate(heartRate))]
    IN IF Len(R1.pending) > 0
       THEN forEachResolve([R1 EXCEPT !.pending = <<>>], R1.pending, heartRate)
       ELSE R1

\* the event is delivered to every listener registered on the characteristic
RECURSIVE dispatchValueChanged(_, _, _, _)
dispatchValueChanged(R, n, hasValue, value) ==
  IF n = 0 THEN R
  ELSE dispatchValueChanged(handleHeartRateValueChanged(R, hasValue, value),
                            n - 1, hasValue, value)

SetRegistry(R) ==
  /\ pendingHeartRateRequests' = R.pending
  /\ timers' = R.timers
  /\ promise' = R.promise
  /\ out' = R.out

\* ------------------------------------------------------- initial state
\* no notification has been decoded
NoResult == [handler |-> "none", threw |-> FALSE, hr |-> -1, rr |-> <<>>, glucose |-> -1]

InitService ==
  /\ bluetooth \in BOOLEAN
  /\ device = NoDevice
  /\ server = NoDevice
  /\ connected = [d \in GattDevices |-> FALSE]
  /\ disconnectListeners = [d \in Devices |-> 0]
  /\ hrListeners = [d \in GattDevices |-> 0]
  /\ glListeners = [d \in GattDevices |-> 0]
  /\ pendingHeartRateRequests = <<>>
  /\ timers = {}
  /\ promise = [r \in Req |-> Unused]
  /\ pc = [c \in Calls |-> "idle"]
  /\ awaited = [c \in Calls |-> NoDevice]
  /\ op = "init"
  /\ out = <<>>
  /\ trail = [c \in Calls |-> <<>>]
  /\ ready = FALSE
  /\ cancelled = FALSE
  /\ orphaned = {}

\* no decoder run is under way
NoDecoding ==
  /\ notification = [hasValue |-> FALSE, value |-> <<>>]
  /\ decoded = NoResult

\* the UI after mount: not connected, empty rrBuffer, DEFAULT_METRICS
InitUI ==
  /\ isConnected = FALSE
  /\ rrBuffer = <<>>
  /\ hrv = DefaultHrv
  /\ arrivals = <<>>
  /\ isConnecting = FALSE
  /\ scanningHeartRate = FALSE
  /\ effectDep = FALSE

\* no interval is going to be delivered
NoStream == stream = <<>>

Init == InitService /\ NoDecoding /\ InitUI /\ NoStream /\ version = "bluetoothService"

\* ------------------------------------------------------- on-demand requests
\* requestHeartRate(): the next request identifier is the number of the call
NextReq == Cardinality({r \in Req : promise[r].state # "unused"}) + 1

RequestHeartRate ==
  /\ NextReq \in Req
  /\ LET r == NextReq IN
     /\ op' = "requestHeartRate"
     /\ IF ~CanRequest(device, connected)
        THEN /\ promise' = [promise EXCEPT ![r] = PromiseReject(Created, "NotConnected")]
             /\ out' = <<EffReject(r, "NotConnected")>>
             /\ UNCHANGED <<pendingHeartRateRequests, timers>>
        ELSE /\ promise' = [promise EXCEPT ![r] = Created]
             /\ timers' = setTimeout(timers, r)
             /\ pendingHeartRateRequests' = Append(pendingHeartRateRequests, r)
             /\ out' = <<>>
  /\ UNCHANGED <<envVars, connVars, auxVars>>

\* the 5 second deadline of request r elapses and its timer callback runs;
\* all timers have the same delay, so they expire in the order they were set
TimerFire(r) ==
  /\ r \in timers
  /\ \A q \in timers : r <= q
  /\ SetRegistry(timeoutCallback([Registry EXCEPT !.timers = @ \ {r}], r))
  /\ op' = "timeout"
  /\ UNCHANGED <<envVars, connVars, auxVars>>

\* a 'characteristicvaluechanged' event of device d's heart-rate characteristic
HeartRateNotification(d, hasValue, value) ==
  /\ connected[d]
  /\ hrListeners[d] > 0
  /\ SetRegistry(dispatchValueChanged(Registry, hrListeners[d], hasValue, value))
  /\ op' = "notify"
  /\ UNCHANGED <<envVars, connVars, auxVars>>

\* ------------------------------------------------------- GATT platform
\* device.gatt.disconnect() or loss of the link: connected becomes false, the
\* attribute objects of the session (and the listeners on them) are discarded,
\* and 'gattserverdisconnected' is delivered to the listeners on the device.
GattDown(d) ==
  /\ connected' = [connected EXCEPT ![d] = FALSE]
  /\ hrListeners' = [hrListeners EXCEPT ![d] = 0]
  /\ glListeners' = [glListeners EXCEPT ![d] = 0]

\* gatt.disconnect() of device d rejects the gatt.connect() calls of d that
\* are still in progress
Abort(p, d) ==
  [c \in Calls |-> IF p[c] = "gattConnect" /\ awaited[c] = d THEN "gattAbort" ELSE p[c]]

\* handleDisconnection(), run once for each of the n disconnect listeners
\* registered on the device: each run calls the disconnect observer
handleDisconnection(n) ==
  [i \in 1..(2 * n) |-> IF i % 2 = 1 THEN EffHandler ELSE EffDisconnect]

\* device.addEventListener('gattserverdisconnected', ...) on a device that
\* carries n listeners: bluetoothService.ts removes this.disconnectListener
\* and adds it again, part_002 adds the same function object again (no
\* effect), part_004 adds a fresh bound function
addDisconnectListener(n) ==
  IF version = "part_004" THEN n + 1 ELSE 1

\* how connect() ends with error err while this.device is dev: the catch
\* block of bluetoothService.ts tears the session of this.device down and
\* rethrows; part_004 only rethrows; part_002 has no catch block
ConnectCatch(c, dev, err) ==
  IF version = "bluetoothService" /\ IsConnected(dev, connected)
  THEN /\ GattDown(dev)
       /\ pc' = [Abort(pc, dev) EXCEPT ![c] = "idle"]
       /\ out' = handleDisconnection(disconnectListeners'[dev]) \o <<EffThrow(err)>>
  ELSE /\ pc' = [pc EXCEPT ![c] = "idle"]
       /\ out' = <<EffThrow(err)>>
       /\ UNCHANGED <<connected, hrListeners, glListeners>>

\* (mutation: the capability check is missing)
ConnectCall_noCheck(c) ==
  /\ pc[c] = "idle"
  /\ op' = "connect"
  /\ pc' = [pc EXCEPT ![c] = "requestDevice"]
  /\ out' = <<>>
  /\ UNCHANGED <<envVars, regVars, device, server, connected, disconnectListeners,
                 hrListeners, glListeners, awaited>>

\* ------------------------------------------------------- connect()
\* call c of connect() starts: the capability check, then requestDevice()
\* is awaited
ConnectCall(c) ==
  /\ pc[c] = "idle"
  /\ op' = "connect"
  /\ IF ~bluetooth
     THEN /\ UNCHANGED <<device, server, disconnectListeners, awaited>>
          /\ ConnectCatch(c, device, "NotSupported")
     ELSE /\ pc' = [pc EXCEPT ![c] = "requestDevice"]
          /\ out' = <<>>
          /\ UNCHANGED <<device, server, connected, disconnectListeners,
                         hrListeners, glListeners, awaited>>
  /\ UNCHANGED <<envVars, regVars>>

\* the chooser returns device d: the disconnect listener is registered and,
\* if the device has a GATT server, gatt.connect() is awaited
RequestDeviceResolve(c, d) ==
  /\ pc[c] = "requestDevice"
  /\ version = "part_004" => disconnectListeners[d] < MaxListeners
  /\ op' = "requestDevice"
  /\ device' = d
  /\ disconnectListeners' = [disconnectListeners EXCEPT ![d] = addDisconnectListener(@)]
  /\ IF ~HasGatt(d)
     THEN /\ ConnectCatch(c, d, "NoGatt")
          /\ UNCHANGED awaited
     ELSE /\ pc' = [pc EXCEPT ![c] = "gattConnect"]
          /\ awaited' = [awaited EXCEPT ![c] = d]
          /\ out' = <<>>
          /\ UNCHANGED <<connected, hrListeners, glListeners>>
  /\ UNCHANGED <<envVars, regVars, server>>

\* (mutation: the rejection is swallowed and connect() goes on with the
\* device it already holds)
RequestDeviceReject_swallowed(c) ==
  /\ pc[c] = "requestDevice"
  /\ device # NoDevice /\ HasGatt(device)
  /\ op' = "chooserCancelled"
  /\ pc' = [pc EXCEPT ![c] = "gattConnect"]
  /\ awaited' = [awaited EXCEPT ![c] = device]
  /\ out' = <<>>
  /\ UNCHANGED <<envVars, regVars, device, server, connected, disconnectListeners,
                 hrListeners, glListeners>>

\* the chooser is dismissed: requestDevice() rejects
RequestDeviceReject(c) ==
  /\ pc[c] = "requestDevice"
  /\ op' = "chooserCancelled"
  /\ UNCHANGED <<envVars, regVars, device, server, disconnectListeners, awaited>>
  /\ ConnectCatch(c, device, "NotFound")

\* gatt.connect() resolves: the session is open; the stabilization delay
\* starts (part_004 has none and awaits startHeartRateNotifications() at once)
GattConnectResolve(c) ==
  /\ pc[c] = "gattConnect"
  /\ op' = "gattConnect"
  /\ connected' = [connected EXCEPT ![awaited[c]] = TRUE]
  /\ server' = awaited[c]
  /\ pc' = [pc EXCEPT ![c] = IF version = "part_004" THEN "subscribe" ELSE "stabilize"]
  /\ out' = <<>>
  /\ UNCHANGED <<envVars, regVars, device, disconnectListeners, hrListeners,
                 glListeners, awaited>>

\* gatt.connect() rejects: the link could not be made, or gatt.disconnect()
\* was called while the connect was in progress
GattConnectReject(c) ==
  /\ pc[c] = "gattAbort" \/ (pc[c] = "gattConnect" /\ ~connected[awaited[c]])
  /\ op' = "gattConnectFailed"
  /\ UNCHANGED <<envVars, regVars, device, server, disconnectListeners, awaited>>
  /\ ConnectCatch(c, device, IF pc[c] = "gattAbort" THEN "Abort" ELSE "GattConnect")

\* (mutation: connect() returns when the delay is over, without its attempts)
StabilizeDone_return(c) ==
  /\ pc[c] = "stabilize"
  /\ op' = "stabilize"
  /\ pc' = [pc EXCEPT ![c] = "idle"]
  /\ out' = <<EffReturn>>
  /\ UNCHANGED <<envVars, regVars, device, server, connected, disconnectListeners,
                 hrListeners, glListeners, awaited>>

\* the stabilization timer (1500 ms, 1000 ms in part_002) fires:
\* readBatteryLevel() is awaited (part_002: the heart-rate subscription)
StabilizeDone(c) ==
  /\ pc[c] = "stabilize"
  /\ op' = "stabilize"
  /\ pc' = [pc EXCEPT ![c] = IF version = "part_002" THEN "subscribe" ELSE "battery"]
  /\ out' = <<>>
  /\ UNCHANGED <<envVars, regVars, device, server, connected, disconnectListeners,
                 hrListeners, glListeners, awaited>>

\* (mutation: the battery read is not wrapped in its own try/catch)
BatteryDone_propagates(c, ok) ==
  /\ pc[c] = "battery"
  /\ ok => connected[server]
  /\ op' = IF ok THEN "batteryRead" ELSE "batteryFailed"
  /\ UNCHANGED <<envVars, regVars, device, server, disconnectListeners, awaited>>
  /\ IF ok
     THEN /\ pc' = [pc EXCEPT ![c] = "subscribe"]
          /\ out' = <<>>
          /\ UNCHANGED <<connected, hrListeners, glListeners>>
     ELSE ConnectCatch(c, device, "Battery")

\* readBatteryLevel() settles (its failure is caught and logged):
\* startHeartRateNotifications() is awaited
BatteryDone(c, ok) ==
  /\ pc[c] = "battery"
  /\ ok => connected[server]
  /\ op' = IF ok THEN "batteryRead" ELSE "batteryFailed"
  /\ pc' = [pc EXCEPT ![c] = "subscribe"]
  /\ out' = <<>>
  /\ UNCHANGED <<envVars, regVars, device, server, connected, disconnectListeners,
                 hrListeners, glListeners, awaited>>

\* the heart-rate subscription settles (its failure is caught and logged);
\* on success one more value-changed listener is on the characteristic;
\* connect() returns the device name (part_002: the glucose subscription
\* is awaited first)
SubscribeDone(c, ok) ==
  /\ pc[c] = "subscribe"
  /\ ok => connected[server] /\ hrListeners[server] < MaxListeners
  /\ op' = IF ok THEN "subscribed" ELSE "subscribeFailed"
  /\ hrListeners' = IF ok THEN [hrListeners EXCEPT ![server] = @ + 1] ELSE hrListeners
  /\ IF version = "part_002"
     THEN /\ pc' = [pc EXCEPT ![c] = "glucose"]
          /\ out' = <<>>
     ELSE /\ pc' = [pc EXCEPT ![c] = "idle"]
          /\ out' = <<EffReturn>>
  /\ UNCHANGED <<envVars, regVars, device, server, connected, disconnectListeners,
                 glListeners, awaited>>

\* part_002: the glucose subscription settles (its failure is caught and
\* logged); connect() returns the device name
GlucoseDone(c, ok) ==
  /\ pc[c] = "glucose"
  /\ ok => connected[server] /\ glListeners[server] < MaxListeners
  /\ op' = IF ok THEN "glucoseSubscribed" ELSE "glucoseFailed"
  /\ glListeners' = IF ok THEN [glListeners EXCEPT ![server] = @ + 1] ELSE glListeners
  /\ pc' = [pc EXCEPT ![c] = "idle"]
  /\ out' = <<EffReturn>>
  /\ UNCHANGED <<envVars, regVars, device, server, connected, disconnectListeners,
                 hrListeners, awaited>>

\* ------------------------------------------------------- disconnect
\* (mutation: the observer is called whether or not a device is connected)
Disconnect_always ==
  /\ op' = "disconnect"
  /\ IF IsConnected(device, connected)
     THEN /\ disconnectListeners' =
               IF version = "bluetoothService"
               THEN [disconnectListeners EXCEPT ![device] = 0]
               ELSE disconnectListeners
          /\ GattDown(device)
          /\ out' = handleDisconnection(disconnectListeners'[device])
                      \o (IF version = "bluetoothService" THEN <<EffDisconnect>> ELSE <<>>)
          /\ pc' = Abort(pc, device)
     ELSE /\ out' = <<EffDisconnect>>
          /\ UNCHANGED <<connected, disconnectListeners, hrListeners, glListeners, pc>>
  /\ UNCHANGED <<envVars, regVars, device, server, awaited>>

\* disconnect(): user-initiated teardown of this.device.  bluetoothService.ts
\* removes its disconnect listener, calls gatt.disconnect() and then the
\* disconnect observer; part_002 and part_004 only call gatt.disconnect(),
\* whose 'gattserverdisconnected' event runs the listeners.
Disconnect ==
  /\ op' = "disconnect"
  /\ IF IsConnected(device, connected)
     THEN /\ disconnectListeners' =
               IF version = "bluetoothService"
               THEN [disconnectListeners EXCEPT ![device] = 0]
               ELSE disconnectListeners
          /\ GattDown(device)
          /\ out' = handleDisconnection(disconnectListeners'[device])
                      \o (IF version = "bluetoothService" THEN <<EffDisconnect>> ELSE <<>>)
          /\ pc' = Abort(pc, device)
     ELSE /\ out' = <<>>
          /\ UNCHANGED <<connected, disconnectListeners, hrListeners, glListeners, pc>>
  /\ UNCHANGED <<envVars, regVars, device, server, awaited>>

\* the peer drops the link of device d: 'gattserverdisconnected' is dispatched
PeerDisconnect(d) ==
  /\ connected[d]
  /\ op' = "peerDisconnect"
  /\ GattDown(d)
  /\ out' = handleDisconnection(disconnectListeners[d])
  /\ UNCHANGED <<envVars, regVars, device, server, disconnectListeners, pc, awaited>>

\* ------------------------------------------------------- specification
\* The service of bluetoothService.ts with its request registry, driven by a
\* caller that has one connect() call in flight at a time.
Next ==
  \/ ConnectCall(Caller) /\ UNCHANGED auxVars
  \/ \E d \in Devices : RequestDeviceResolve(Caller, d) /\ UNCHANGED auxVars
  \/ RequestDeviceReject(Caller) /\ UNCHANGED auxVars
  \/ GattConnectResolve(Caller) /\ UNCHANGED auxVars
  \/ GattConnectReject(Caller) /\ UNCHANGED auxVars
  \/ StabilizeDone(Caller) /\ UNCHANGED auxVars
  \/ \E ok \in BOOLEAN : BatteryDone(Caller, ok) /\ UNCHANGED auxVars
  \/ \E ok \in BOOLEAN : SubscribeDone(Caller, ok) /\ UNCHANGED auxVars
  \/ Disconnect /\ UNCHANGED auxVars
  \/ \E d \in GattDevices : PeerDisconnect(d) /\ UNCHANGED auxVars
  \/ RequestHeartRate
  \/ \E r \in Req : TimerFire(r)
  \/ \E d \in GattDevices, e \in Events :
       HeartRateNotification(d, e.hasValue, e.value)

Spec == Init /\ [][Next]_vars

\* timers are fired by the host: an armed timer eventually runs its callback
FairSpec == Spec /\ \A r \in Req : WF_vars(TimerFire(r))

\* ------------------------------------------------------- connection history
\* The service classes of the three versions driven by callers that do not
\* wait for one connect() to finish before starting the next.  Each step of
\* a connect() call is recorded in the call's trail.
TornDown == \E d \in GattDevices : connected[d] /\ ~connected'[d]

\* the trail of call c grows by the steps es, and by "throw" if the step
\* ended the call with an error
Log(c, es) ==
  trail' = [trail EXCEPT ![c] =
              @ \o es \o (IF \E i \in 1..Len(out') : out'[i].kind = "throw"
                          THEN <<"throw">> ELSE <<>>)]

Returned == \E i \in 1..Len(out') : out'[i].kind = "return"

Traced(c, es) ==
  /\ Log(c, es \o (IF Returned THEN <<"return">> ELSE <<>>))
  /\ ready' = IF Returned THEN IsConnected(device', connected') ELSE ready /\ ~TornDown
  /\ UNCHANGED <<decVars, uiVars, orphaned>>

TracedConnectCall(c) ==
  /\ ConnectCall(c)
  /\ trail' = [trail EXCEPT ![c] =
                 <<IF cancelled THEN "reconnect" ELSE "connect">>
                   \o (IF pc'[c] = "idle" THEN <<"throw">> ELSE <<>>)]
  /\ ready' = (ready /\ ~TornDown)
  /\ UNCHANGED <<cancelled, decVars, uiVars, orphaned>>

TracedRequestDeviceResolve(c, d) ==
  RequestDeviceResolve(c, d) /\ Traced(c, <<"requestDevice">>) /\ UNCHANGED cancelled

TracedRequestDeviceReject(c) ==
  RequestDeviceReject(c) /\ Traced(c, <<>>) /\ cancelled' = TRUE

TracedGattConnectResolve(c) ==
  GattConnectResolve(c) /\ Traced(c, <<"gattConnect">>) /\ UNCHANGED cancelled

TracedGattConnectReject(c) ==
  GattConnectReject(c) /\ Traced(c, <<>>) /\ UNCHANGED cancelled

TracedStabilizeDone(c) ==
  StabilizeDone(c) /\ Traced(c, <<"stabilize">>) /\ UNCHANGED cancelled

TracedBatteryDone(c, ok) ==
  /\ BatteryDone(c, ok)
  /\ Traced(c, <<IF ok THEN "battery+" ELSE "battery-">>)
  /\ UNCHANGED cancelled

TracedSubscribeDone(c, ok) ==
  /\ SubscribeDone(c, ok)
  /\ Traced(c, <<IF ok THEN "heartRate+" ELSE "heartRate-">>)
  /\ UNCHANGED cancelled

TracedGlucoseDone(c, ok) ==
  /\ GlucoseDone(c, ok)
  /\ Traced(c, <<IF ok THEN "glucose+" ELSE "glucose-">>)
  /\ UNCHANGED cancelled

TracedDisconnect ==
  /\ Disconnect
  /\ ready' = (ready /\ ~TornDown)
  /\ UNCHANGED <<trail, cancelled, decVars, uiVars, orphaned>>

TracedPeerDisconnect(d) ==
  /\ PeerDisconnect(d)
  /\ ready' = (ready /\ ~TornDown)
  /\ UNCHANGED <<trail, cancelled, decVars, uiVars, orphaned>>

ConnInit == InitService /\ NoDecoding /\ InitUI /\ NoStream /\ version \in Versions

ConnNext ==
  \/ \E c \in Calls : TracedConnectCall(c)
  \/ \E c \in Calls, d \in Devices : TracedRequestDeviceResolve(c, d)
  \/ \E c \in Calls : TracedRequestDeviceReject(c)
  \/ \E c \in Calls : TracedGattConnectResolve(c)
  \/ \E c \in Calls : TracedGattConnectReject(c)
  \/ \E c \in Calls : TracedStabilizeDone(c)
  \/ \E c \in Calls, ok \in BOOLEAN : TracedBatteryDone(c, ok)
  \/ \E c \in Calls, ok \in BOOLEAN : TracedSubscribeDone(c, ok)
  \/ \E c \in Calls, ok \in BOOLEAN : TracedGlucoseDone(c, ok)
  \/ TracedDisconnect
  \/ \E d \in GattDevices : TracedPeerDisconnect(d)

ConnSpec == ConnInit /\ [][ConnNext]_vars

\* ------------------------------------------------------- properties
Range(list) == {list[i] : i \in 1..Len(list)}
Remove(list, r) == SelectSeq(list, LAMBDA x : x # r)
NotConnected == device = NoDevice \/ ~HasGatt(device) \/ ~connected[device]
Settled(r) == promise[r].state \in {"resolved", "rejected"}

\* C1: every request registered by requestHeartRate() is eventually settled
\* (resolved by a notification or rejected by its deadline timer), whatever
\* notifications, disconnects and reconnects follow, if armed timers fire.
C1_EventuallySettled ==
  \A r \in Req : (promise[r].state = "pending") ~> Settled(r)

C1_Witness ==
  \E r \in Req : /\ promise[r].error = "Timeout"
                 /\ \A d \in GattDevices : ~connected[d]
                 /\ op = "timeout"

\* C2: no request is settled twice: resolve/reject is invoked at most once per
\* request, and a settled request is no longer in the pending list.
C2_NeverSettledTwice ==
  \A r \in Req : /\ promise[r].calls <= 1
                 /\ Settled(r) => promise[r].calls = 1 /\ r \notin Range(pendingHeartRateRequests)

C2_Witness ==
  \E r1, r2 \in Req : /\ promise[r1].state = "resolved"
                      /\ promise[r2].error = "Timeout"

\* C3: a disconnect() call made while the device is connected rejects every
\* pending request with a connection-lost error and leaves the registry empty.
C3_DisconnectFailsAllPending ==
  [][(op' = "disconnect" /\ ~NotConnected) =>
       /\ pendingHeartRateRequests' = <<>>
       /\ \A r \in Range(pendingHeartRateRequests) :
            promise'[r].state = "rejected" /\ promise'[r].error = "ConnectionLost"]_vars

\* C4: a peer-initiated disconnect in Ready (connect() completed, this.device
\* connected) fires the disconnect observer and, in the same step, rejects
\* every pending request with a connection-lost error.
C4_PeerDisconnectFailsAllPending ==
  [][(op' = "peerDisconnect" /\ (\A c \in Calls : pc[c] = "idle") /\ ~NotConnected /\ ~connected'[device]) =>
       /\ \E i \in 1..Len(out') : out'[i].kind = "onDisconnect"
       /\ pendingHeartRateRequests' = <<>>
       /\ \A r \in Range(pendingHeartRateRequests) :
            promise'[r].state = "rejected" /\ promise'[r].error = "ConnectionLost"]_vars

\* C5: once a request has been fulfilled by a notification, no later step
\* touches it: its timer is not armed, its promise is never settled again and
\* no later timer callback names it.
C5_FulfilledNeverTimesOut ==
  [][\A r \in Req : promise[r].state = "resolved" =>
        /\ r \notin timers
        /\ promise'[r] = promise[r]
        /\ \A i \in 1..Len(out') : out'[i].req # r]_vars

C5_Witness ==
  \E r \in Req : promise[r].state = "resolved" /\ op = "timeout"

\* C6: when the deadline of a pending request elapses, the request is rejected
\* with the timeout error by exactly one reject call, and exactly its entry is
\* removed from the pending list.
C6_TimeoutRejectsOnce ==
  [][\A r \in Req : (op' = "timeout" /\ r \in timers /\ r \notin timers') =>
        /\ promise[r].state = "pending"
        /\ promise'[r] = [state |-> "rejected", value |-> -1,
                          error |-> "Timeout", calls |-> 1]
        /\ out' = <<EffReject(r, "Timeout")>>
        /\ pendingHeartRateRequests' = Remove(pendingHeartRateRequests, r)
        /\ r \in Range(pendingHeartRateRequests)]_vars

C6_Witness ==
  /\ op = "timeout"
  /\ Len(pendingHeartRateRequests) >= 1
  /\ \E r \in Req : promise[r].error = "Timeout" /\ r \notin Range(pendingHeartRateRequests)

\* C7: requestHeartRate() called while no device is connected rejects at once
\* with the not-connected error, registers no entry and arms no timer; such a
\* request is never changed by any later step (no notification resolves it).
C7_NotConnectedFailsImmediately ==
  [][/\ (op' = "requestHeartRate" /\ NotConnected) =>
          /\ out' = <<EffReject(NextReq, "NotConnected")>>
          /\ promise'[NextReq].state = "rejected"
          /\ promise'[NextReq].error = "NotConnected"
          /\ UNCHANGED <<pendingHeartRateRequests, timers>>
     /\ \A r \in Req : promise[r].error = "NotConnected" =>
          /\ promise'[r] = promise[r]
          /\ r \notin timers'
          /\ r \notin Range(pendingHeartRateRequests')]_vars

C7_Witness ==
  /\ op = "notify"
  /\ device # NoDevice
  /\ \E r \in Req : promise[r].error = "NotConnected"
  /\ \E i \in 1..Len(out) : out[i].kind = "onHeartRateChange"

\* C8: a notification that carries a bpm resolves every request pending at its
\* arrival with that bpm (the value given to the observer) and leaves the
\* pending list empty.
C8_BroadcastToAllPending ==
  [][(op' = "notify" /\ out' # <<>> /\ Head(out').kind = "onHeartRateChange") =>
        /\ pendingHeartRateRequests' = <<>>
        /\ \A r \in Range(pendingHeartRateRequests) :
             /\ promise'[r].state = "resolved"
             /\ promise'[r].value = Head(out').hr
             /\ \E i \in 1..Len(out') : out'[i] = EffResolve(r, Head(out').hr)]_vars

C8_Witness ==
  /\ op = "notify"
  /\ \E r1, r2 \in Req :
       /\ r1 # r2
       /\ \E i, j \in 1..Len(out) :
            /\ i < j
            /\ out[i] = EffResolve(r1, out[1].hr)
            /\ out[j] = EffResolve(r2, out[1].hr)

\* C9: the registry entry, the armed timer and the unsettled promise of a
\* request exist together and vanish together: whichever of deadline and
\* notification is handled first removes the entry and disarms the timer, so
\* the other event finds nothing of that request, and no entry is duplicated.
C9_EntryTimerPromiseAgree ==
  /\ \A r \in Req : /\ r \in Range(pendingHeartRateRequests) <=> r \in timers
                    /\ r \in timers <=> promise[r].state = "pending"
  /\ \A i, j \in 1..Len(pendingHeartRateRequests) :
       pendingHeartRateRequests[i] = pendingHeartRateRequests[j] => i = j

C9_Witness ==
  /\ op = "timeout"
  /\ \E d \in GattDevices : connected[d] /\ hrListeners[d] > 0
  /\ \E r \in Req : promise[r].state = "resolved"

\* C10: the expiry of one deadline changes nothing of the connection (device,
\* server, connected, listeners, connect() progress) and nothing of any other
\* pending request: each stays in the list, unsettled, with its timer armed.
C10_TimeoutAffectsOnlyItsRequest ==
  [][op' = "timeout" =>
        /\ UNCHANGED <<device, server, connected, disconnectListeners, hrListeners, pc>>
        /\ Cardinality(timers \ timers') = 1
        /\ \A q \in timers' :
             /\ q \in timers
             /\ promise'[q] = promise[q]
             /\ promise'[q].state = "pending"
             /\ q \in Range(pendingHeartRateRequests')]_vars

C10_Witness ==
  /\ op = "timeout"
  /\ timers # {}
  /\ ~NotConnected

\* ------------------------------------------------------- connect() claims
Last(list) == list[Len(list)]
Threw == \E i \in 1..Len(out') : out'[i].kind = "throw"
InFlight == {c \in Calls : pc[c] # "idle"}
Subscribing == {"battery", "subscribe", "glucose"}

\* C11: at most one connect() sequence is in flight on a service instance:
\* no second connect() is between its device request and its completion
\* while an earlier one still is.
C11_OneConnectInFlight ==
  version = "bluetoothService" => Cardinality(InFlight) <= 1

\* C12: once connect() has succeeded, no gatt.connect() is attempted on the
\* instance before a user- or peer-initiated disconnect has happened.
C12_NoGattConnectFromReady ==
  [][\A c \in Calls :
       (version = "bluetoothService" /\ pc[c] = "requestDevice" /\ pc'[c] = "gattConnect")
         => ~ready]_vars

\* the complete trails of a connect() call that returned
FullTrails ==
  LET first == {"connect", "reconnect"} IN
  IF version = "part_002"
  THEN {<<f, "requestDevice", "gattConnect", "stabilize", h, g, "return">> :
          f \in first, h \in {"heartRate+", "heartRate-"}, g \in {"glucose+", "glucose-"}}
  ELSE {<<f, "requestDevice", "gattConnect", "stabilize", b, h, "return">> :
          f \in first, b \in {"battery+", "battery-"}, h \in {"heartRate+", "heartRate-"}}

\* C13: a connect() call returns only after it has passed, in this order,
\* device discovery, a successful gatt.connect(), the stabilization delay
\* and its subscription attempts (bluetoothService.ts and part_002).
C13_ReturnsOnlyAfterAllStages ==
  \A c \in Calls :
    (version \in {"bluetoothService", "part_002"}
       /\ trail[c] # <<>> /\ Last(trail[c]) = "return")
      => trail[c] \in FullTrails

C13_Witness ==
  \E c \in Calls :
    /\ version = "part_002"
    /\ trail[c] # <<>> /\ Last(trail[c]) = "return"
    /\ op = "glucoseSubscribed"

\* C14: after gatt.connect() has resolved, a connect() call issues no
\* service discovery, characteristic read or subscription before its
\* stabilization delay has elapsed.
C14_NoAttemptBeforeStabilized ==
  \A c \in Calls :
    pc[c] \in Subscribing => \E i \in 1..Len(trail[c]) : trail[c][i] = "stabilize"

\* C15: whatever the outcome of the battery read and of the heart-rate and
\* glucose subscriptions, the step that settles an attempt throws nothing
\* and moves connect() to its next attempt or to its return.
C15_AttemptFailuresNotPropagated ==
  [][\A c \in Calls :
       (pc[c] \in Subscribing /\ pc'[c] # pc[c])
         => /\ ~Threw
            /\ pc'[c] \in {"subscribe", "glucose", "idle"}
            /\ pc'[c] = "idle" => Returned]_vars

C15_Witness ==
  \E c \in Calls :
    trail[c] \in {<<"connect", "requestDevice", "gattConnect", "stabilize",
                    "battery-", "heartRate-", "return">>,
                  <<"connect", "requestDevice", "gattConnect", "stabilize",
                    "heartRate-", "glucose-", "return">>}

C17_UnsupportedFailsAtOnce ==
  [][(op' = "connect" /\ ~bluetooth)
       => /\ out' = <<EffThrow("NotSupported")>>
          /\ \A c \in Calls : pc'[c] = "idle"
          /\ device' = NoDevice /\ server' = NoDevice
          /\ UNCHANGED <<device, server, connected, disconnectListeners,
                         hrListeners, glListeners, awaited>>]_vars

C17_Witness == ~bluetooth /\ op = "connect" /\ out = <<EffThrow("NotSupported")>>

\* C18: when the chooser is dismissed, the connect() call rejects with the
\* chooser's error and is over: it attempted no gatt.connect(), registered no
\* disconnect listener, left the device handle as it was, and connect() can
\* be called again (and succeed).
C18_ChooserCancelReturnsToIdle ==
  [][\A c \in Calls :
       (op' = "chooserCancelled" /\ pc[c] = "requestDevice" /\ pc'[c] # "requestDevice")
         => /\ pc'[c] = "idle"
            /\ Last(out') = EffThrow("NotFound")
            /\ trail'[c] \in {<<f, "throw">> : f \in {"connect", "reconnect"}}
            /\ UNCHANGED <<device, server, disconnectListeners, awaited>>]_vars

C18_Witness ==
  \E c \in Calls :
    /\ trail[c] # <<>>
    /\ Head(trail[c]) = "reconnect"
    /\ Last(trail[c]) = "return"
    /\ connected[server]

\* C19: a user-initiated disconnect() from Ready removes the registered
\* disconnect listener before the session is torn down: the peer-disconnect
\* handler does not run for that teardown and the observer fires exactly once
\* (bluetoothService.ts and part_002).
C19_UserDisconnectRemovesListenerFirst ==
  [][(op' = "disconnect" /\ ready /\ IsConnected(device, connected)
        /\ version \in {"bluetoothService", "part_002"})
       => /\ disconnectListeners'[device] = 0
          /\ out' = <<EffDisconnect>>]_vars

\* ------------------------------------------------------- notification decoding
\* The value-changed handlers, applied to one buffer at a time.
\* A buffer is the byte sequence of event.target.value (a DataView).
\* bit 0: 16-bit rate, bits 1-2: sensor contact, bit 3: energy, bit 4: RR
Flags == {0, 1, 6, 8, 16, 17, 22, 24, 25}
DataBytes == {0, 2, 75, 255}
Bodies == UNION {[1..n -> DataBytes] : n \in 0..MaxBody}
GlucoseBuffers ==
  {[i \in 1..n |-> IF i = GlucoseOffset + 1 THEN g ELSE 0] :
     n \in {GlucoseOffset, GlucoseOffset + 1}, g \in {0, 95, 255}}
\* a 16-bit rate of 75 followed by the interval words 0x0200 and 0x0400
RRBuffers == {<<17, 75, 0, 0, 2, 0, 4>>}
Buffers ==
  {<<>>} \cup {<<f>> \o b : f \in Flags, b \in Bodies} \cup GlucoseBuffers \cup RRBuffers

\* DataView.getUint8(o) and getUint16(o, true): o is a 0-based byte offset;
\* a read that runs past byteLength raises RangeError
InView(value, o, n) == o + n <= Len(value)
getUint8(value, o) == value[o + 1]
\* (mutation: the two bytes are read big-endian)
getUint16_bigEndian(value, o) == 256 * value[o + 1] + value[o + 2]

getUint16(value, o) == value[o + 1] + 256 * value[o + 2]
Bit(flags, k) == (flags \div (2 ^ k)) % 2 = 1

\* (mutation: the rate is always read as one byte)
bpmWidth_8(flags) == 1

\* bytes taken by the heart rate: rate16Bits ? 2 : 1 (offset += 2 / += 1)
bpmWidth(flags) == IF Bit(flags, 0) THEN 2 ELSE 1

\* (mutation: the energy field is not skipped)
energySkip_none(flags) == 0

\* if ((flags & 0x08) !== 0) offset += 2
energySkip(flags) == IF Bit(flags, 3) THEN 2 ELSE 0

\* (mutation: the raw 1/1024 s count is handed on as milliseconds)
rrMs_raw(rr) == [ms |-> rr, frac |-> 0]

\* (rr / 1024) * 1000, kept exact: whole milliseconds and 1/128 ms
rrMs(rr) == [ms |-> (rr * 125) \div 128, frac |-> (rr * 125) % 128]

Thrown(h) == [handler |-> h, threw |-> TRUE, hr |-> -1, rr |-> <<>>, glucose |-> -1]
Nothing(h) == [handler |-> h, threw |-> FALSE, hr |-> -1, rr |-> <<>>, glucose |-> -1]

\* (mutation: only the first interval word is read)
readRRIntervals_first(value, offset) ==
  IF offset + 1 < Len(value) THEN <<rrMs(getUint16(value, offset))>> ELSE <<>>

\* the while loop of handleHeartRateValueChanged: the remaining byte pairs
RECURSIVE readRRIntervals(_, _)
readRRIntervals(value, offset) ==
  IF offset + 1 < Len(value)
  THEN <<rrMs(getUint16(value, offset))>> \o readRRIntervals(value, offset + 2)
  ELSE <<>>

\* handleHeartRateValueChanged(event) of part_002: what it hands to
\* onHeartRateChange and onRRInterval, or that it threw
handleHeartRateValueChangedRR(hasValue, value) ==
  IF ~hasValue THEN Nothing("heartRate")
  ELSE IF ~InView(value, 0, 1) THEN Thrown("heartRate")
  ELSE
    LET flags == getUint8(value, 0)
        width == bpmWidth(flags)
    IN IF ~InView(value, 1, width) THEN Thrown("heartRate")
       ELSE
         LET heartRate == IF width = 2 THEN getUint16(value, 1) ELSE getUint8(value, 1)
             offset == 1 + width
             rrIntervalPresent == Bit(flags, 4)
             start == offset + energySkip(flags)
         IN [handler |-> "heartRate", threw |-> FALSE, hr |-> heartRate,
             rr |-> IF rrIntervalPresent THEN readRRIntervals(value, start) ELSE <<>>,
             glucose |-> -1]

\* handleHeartRateValueChanged(event) of bluetoothService.ts: what it hands
\* to onHeartRateChange, or that it threw; it reads no intervals
handleHeartRateValueChangedHR(hasValue, value) ==
  IF ~hasValue THEN Nothing("heartRate")
  ELSE IF DecodeThrows(value) THEN Thrown("heartRate")
  ELSE [Nothing("heartRate") EXCEPT !.hr = DecodeHeartRate(value)]

\* (mutation: a zero byte is forwarded like any other)
handleGlucoseValueChanged_zero(hasValue, value) ==
  IF ~hasValue THEN Nothing("glucose")
  ELSE IF ~InView(value, 0, 1) THEN Thrown("glucose")
  ELSE IF ~InView(value, GlucoseOffset, 1) THEN Nothing("glucose")
  ELSE [Nothing("glucose") EXCEPT !.glucose = getUint8(value, GlucoseOffset)]

\* handleGlucoseValueChanged(event) of part_002: the flags byte is read
\* outside the try block, the byte at offset 10 inside it
handleGlucoseValueChanged(hasValue, value) ==
  IF ~hasValue THEN Nothing("glucose")
  ELSE IF ~InView(value, 0, 1) THEN Thrown("glucose")
  ELSE IF ~InView(value, GlucoseOffset, 1) THEN Nothing("glucose")
  ELSE LET glucose == getUint8(value, GlucoseOffset) IN
       IF glucose > 0 THEN [Nothing("glucose") EXCEPT !.glucose = glucose]
       ELSE Nothing("glucose")

\* the events a characteristic can deliver: a buffer, or no value at all
BufferEvents ==
  {[hasValue |-> TRUE, value |-> v] : v \in Buffers}
    \cup {[hasValue |-> FALSE, value |-> <<>>]}

\* the heart-rate characteristic delivers the event to its handler
HeartRateValueChanged ==
  /\ decoded = NoResult
  /\ decoded' = IF version = "part_002"
                THEN handleHeartRateValueChangedRR(notification.hasValue, notification.value)
                ELSE handleHeartRateValueChangedHR(notification.hasValue, notification.value)
  /\ UNCHANGED <<envVars, connVars, regVars, histVars, uiVars, op, out, notification>>

\* the glucose characteristic delivers the event to its handler
GlucoseValueChanged ==
  /\ version = "part_002"
  /\ decoded = NoResult
  /\ decoded' = handleGlucoseValueChanged(notification.hasValue, notification.value)
  /\ UNCHANGED <<envVars, connVars, regVars, histVars, uiVars, op, out, notification>>

\* one event, drawn from the bounded set of buffers, is decoded by one handler
DecodeInit ==
  /\ InitService
  /\ bluetooth
  /\ version \in {"bluetoothService", "part_002"}
  /\ notification \in BufferEvents
  /\ decoded = NoResult
  /\ InitUI
  /\ NoStream

DecodeNext == HeartRateValueChanged \/ GlucoseValueChanged

DecodeSpec == DecodeInit /\ [][DecodeNext]_vars

\* C20: the heart-rate and glucose handlers never throw: for every buffer
\* (empty, one byte, a 16-bit rate flag with two bytes, an odd trailing
\* byte) they return normally with what was parsed so far.
C20_DecodingNeverThrows == ~decoded.threw

\* the bytes of the decoded notification, by 0-based offset
Byte(o) == notification.value[o + 1]

\* a heart-rate notification was decoded without a RangeError
HeartRateDecoded ==
  decoded.handler = "heartRate" /\ ~decoded.threw /\ notification.hasValue

\* C21: bit 0 of the flags byte selects the rate width.  Set: the rate is
\* byte 1 + 256 * byte 2 and two bytes are consumed; clear: the rate is byte 1
\* and one byte is consumed (with the RR flag and no energy field the first
\* interval word therefore starts at offset 3, resp. 2).  [0x00, 0x4B] gives
\* 75 and no intervals.  Both versions of the handler.
C21_RateWidthFromFlagBit0 ==
  HeartRateDecoded =>
    LET wide == Byte(0) % 2 = 1
        used == IF wide THEN 2 ELSE 1
    IN /\ Len(notification.value) >= 1 + used
       /\ decoded.hr = IF wide THEN Byte(1) + 256 * Byte(2) ELSE Byte(1)
       /\ (version = "part_002" /\ Byte(0) \in {16, 17, 22})
            => /\ Len(decoded.rr) = (Len(notification.value) - 1 - used) \div 2
               /\ \A i \in 1..Len(decoded.rr) :
                    decoded.rr[i].ms * 128 + decoded.rr[i].frac
                      = 125 * (Byte(used + 2 * i - 1) + 256 * Byte(used + 2 * i))
       /\ notification.value = <<0, 75>> => decoded.hr = 75 /\ decoded.rr = <<>>

C21_Witness ==
  /\ HeartRateDecoded
  /\ notification.value = <<0, 75>>
  /\ decoded.hr = 75
  /\ decoded.rr = <<>>

\* an interval of the decoder output is word / 1024 * 1000 milliseconds,
\* that is word * 125 / 128
IsMsOf(interval, word) ==
  /\ interval.frac \in 0..127
  /\ interval.ms * 128 + interval.frac = word * 125

\* the little-endian 16-bit word at 0-based offset o of the notification
Word(o) == Byte(o) + 256 * Byte(o + 1)

\* part_002 decoded a heart-rate notification without a RangeError
RRDecoded == HeartRateDecoded /\ version = "part_002"

\* C22: with flag bit 4 set the decoder emits one interval per complete
\* 16-bit word that remains after the rate (and after the energy field if
\* present), in buffer order, each word / 1024 * 1000 ms, for as long as two
\* bytes remain; with bit 4 clear it emits no interval, whatever trails.
C22_IntervalPerCompleteWord ==
  RRDecoded =>
    LET flags == Byte(0)
        first == 1 + (IF flags % 2 = 1 THEN 2 ELSE 1)
                   + (IF (flags \div 8) % 2 = 1 THEN 2 ELSE 0)
        left == Len(notification.value) - first
        n == IF left >= 2 THEN left \div 2 ELSE 0
    IN IF (flags \div 16) % 2 = 1
       THEN /\ Len(decoded.rr) = n
            /\ \A i \in 1..Len(decoded.rr) :
                 IsMsOf(decoded.rr[i], Word(first + 2 * (i - 1)))
       ELSE decoded.rr = <<>>

C22_Witness ==
  /\ RRDecoded
  /\ notification.value = <<16, 75, 0, 2, 2, 0>>
  /\ decoded.rr = <<[ms |-> 500, frac |-> 0], [ms |-> 1, frac |-> 122]>>

\* C23: with flag bit 3 set, two bytes after the rate are skipped before the
\* intervals are parsed: the first interval word is read at offset
\* 1 + rate width + 2; with bit 3 clear it is read at offset 1 + rate width.
C23_EnergyFieldSkipped ==
  (RRDecoded /\ (Byte(0) \div 16) % 2 = 1) =>
    LET flags == Byte(0)
        after == 1 + (IF flags % 2 = 1 THEN 2 ELSE 1)
        first == IF (flags \div 8) % 2 = 1 THEN after + 2 ELSE after
    IN IF Len(notification.value) >= first + 2
       THEN decoded.rr # <<>> /\ IsMsOf(decoded.rr[1], Word(first))
       ELSE decoded.rr = <<>>

C23_Witness ==
  /\ RRDecoded
  /\ notification.value = <<24, 75, 255, 255, 0, 2>>
  /\ decoded.rr = <<[ms |-> 500, frac |-> 0]>>

\* C24: [0x11, 0x4B, 0x00, 0x00, 0x02, 0x00, 0x04] decodes to the rate 75 and
\* the intervals 500.0 ms and 1000.0 ms.
C24_ExampleDecodes ==
  (RRDecoded /\ notification.value = <<17, 75, 0, 0, 2, 0, 4>>) =>
    /\ decoded.hr = 75
    /\ decoded.rr = <<[ms |-> 500, frac |-> 0], [ms |-> 1000, frac |-> 0]>>

C24_Witness ==
  /\ RRDecoded
  /\ notification.value = <<17, 75, 0, 0, 2, 0, 4>>
  /\ Len(decoded.rr) = 2
  /\ decoded.rr[2].ms = 1000

\* a rate written as a little-endian 16-bit field
encodeUint16LE(n) == <<n % 256, n \div 256>>

\* the 16-bit rates whose two bytes are among the notification bytes
Rates == {lo + 256 * hi : lo \in DataBytes, hi \in DataBytes}

\* C25: with the 16-bit flag, the decoded rate re-encoded as a little-endian
\* 16-bit field gives back bytes 1..2 of the payload, and a rate encoded
\* into bytes 1..2 decodes to the same number.  Both versions of the handler.
C25_Rate16RoundTrip ==
  (HeartRateDecoded /\ Byte(0) % 2 = 1) =>
    /\ Len(notification.value) >= 3
    /\ decoded.hr \in 0..65535
    /\ encodeUint16LE(decoded.hr) = SubSeq(notification.value, 2, 3)
    /\ \A n \in Rates :
         SubSeq(notification.value, 2, 3) = encodeUint16LE(n) => decoded.hr = n

C25_Witness ==
  /\ HeartRateDecoded
  /\ Len(notification.value) >= 3
  /\ SubSeq(notification.value, 1, 3) = <<1>> \o encodeUint16LE(19455)
  /\ decoded.hr = 19455

\* the glucose handler ran on a notification without a RangeError
GlucoseDecoded ==
  decoded.handler = "glucose" /\ ~decoded.threw /\ notification.hasValue

RRValues == {800, 810, 850}
Streams == UNION {[1..n -> RRValues] : n \in 1..MaxPattern}

\* Math.floor(40 + Math.random() * 20)
MockHrv == 40..59

EffHrv(v) == Eff("setMetrics.hrv", 0, v, "")

\* (mutation: the newest interval is dropped when the buffer is full)
push_dropNewest(prev, rr) ==
  IF Len(prev) + 1 > WindowSize THEN prev ELSE Append(prev, rr)

\* newBuff = [...prev, rrMs]; if (newBuff.length > 20) newBuff.shift()
push(prev, rr) ==
  LET newBuff == Append(prev, rr)
  IN IF Len(newBuff) > WindowSize THEN Tail(newBuff) ELSE newBuff

\* (mutation: two samples are enough for a statistic)
hasStatistic_two(newBuff) == Len(newBuff) > 1

\* if (newBuff.length > 2)
hasStatistic(newBuff) == Len(newBuff) > 2

\* the for loop from index i: sumSquares += diff * diff
RECURSIVE sumSquares(_, _)
sumSquares(newBuff, i) ==
  IF i < Len(newBuff)
  THEN (newBuff[i + 1] - newBuff[i]) * (newBuff[i + 1] - newBuff[i])
         + sumSquares(newBuff, i + 1)
  ELSE 0

\* Math.round(Math.sqrt(num / den)): the integer r with
\* r - 1/2 <= sqrt(num / den) < r + 1/2 (a tie rounds up)
RECURSIVE RoundSqrtFrom(_, _, _)
RoundSqrtFrom(r, num, den) ==
  IF 4 * num < (2 * r + 1) * (2 * r + 1) * den THEN r
  ELSE RoundSqrtFrom(r + 1, num, den)

RoundSqrt(num, den) == RoundSqrtFrom(0, num, den)

\* (mutation: the mean is taken over the samples, not over the differences)
rmssd_overSamples(newBuff) == RoundSqrt(sumSquares(newBuff, 1), Len(newBuff))

\* Math.round(Math.sqrt(sumSquares / (newBuff.length - 1)))
rmssd(newBuff) == RoundSqrt(sumSquares(newBuff, 1), Len(newBuff) - 1)

\* the interval the service delivers next
NextInterval == stream[(Len(arrivals) % Len(stream)) + 1]

\* connectDevice(): connect() returned, setConnectionState({isConnected: true, ...})
ConnectReturned ==
  /\ ~isConnected
  /\ isConnected' = TRUE
  /\ op' = "connected"
  /\ out' = <<>>
  /\ UNCHANGED <<rrBuffer, hrv, stream, arrivals>>
  /\ UNCHANGED <<envVars, connVars, regVars, histVars, decVars, busyVars>>

\* handleRRInterval(rrMs): the onRRInterval callback
handleRRInterval ==
  /\ isConnected
  /\ Len(arrivals) < MaxPush
  /\ LET newBuff == push(rrBuffer, NextInterval)
     IN /\ rrBuffer' = newBuff
        /\ IF hasStatistic(newBuff)
           THEN hrv' = rmssd(newBuff) /\ out' = <<EffHrv(rmssd(newBuff))>>
           ELSE hrv' = hrv /\ out' = <<>>
  /\ arrivals' = Append(arrivals, NextInterval)
  /\ op' = "rrInterval"
  /\ UNCHANGED <<isConnected, stream>>
  /\ UNCHANGED <<envVars, connVars, regVars, histVars, decVars, busyVars>>

\* the onDisconnect callback: setConnectionState(p => ({...p, isConnected: false, deviceName: null}))
onDisconnect ==
  /\ isConnected
  /\ isConnected' = FALSE
  /\ op' = "onDisconnect"
  /\ out' = <<>>
  /\ UNCHANGED <<rrBuffer, hrv, stream, arrivals>>
  /\ UNCHANGED <<envVars, connVars, regVars, histVars, decVars, busyVars>>

\* the setInterval callback of the mock data: it only writes while not connected
MockTick ==
  /\ ~isConnected
  /\ hrv' \in MockHrv
  /\ op' = "mockTick"
  /\ out' = <<>>
  /\ UNCHANGED <<isConnected, rrBuffer, stream, arrivals>>
  /\ UNCHANGED <<envVars, connVars, regVars, histVars, decVars, busyVars>>

UIInit ==
  /\ InitService
  /\ bluetooth
  /\ version = "part_002"
  /\ NoDecoding
  /\ InitUI
  /\ stream \in Streams

UINext == ConnectReturned \/ handleRRInterval \/ onDisconnect \/ MockTick

UISpec == UIInit /\ [][UINext]_vars

\* the last n elements of a sequence
LastN(seq, n) == SubSeq(seq, Len(seq) - n + 1, Len(seq))

\* C27: after any sequence of interval arrivals the window holds at most 20
\* samples, and they are the most recent min(k, 20) of the k intervals that
\* arrived, in arrival order.
C27_WindowIsMostRecent ==
  LET k == Len(arrivals)
      n == IF k < 20 THEN k ELSE 20
  IN /\ Len(rrBuffer) <= 20
     /\ rrBuffer = LastN(arrivals, n)

C27_Witness ==
  /\ Len(arrivals) = 22
  /\ Len(rrBuffer) = 20
  /\ rrBuffer[1] = arrivals[3]
  /\ rrBuffer[1] # arrivals[1]

\* C28: a pushed interval produces a variability statistic exactly when the
\* window holds at least 3 samples after the push; with fewer, nothing is
\* produced and the displayed variability stays as it was.
C28_StatisticFromThreeSamples ==
  [][op' = "rrInterval"
       => /\ (out' # <<>>) <=> (Len(rrBuffer') >= 3)
          /\ Len(rrBuffer') < 3 => hrv' = hrv]_vars

C28_Witness ==
  /\ op = "rrInterval"
  /\ Len(rrBuffer) = 2
  /\ out = <<>>
  /\ hrv = 59

\* the sum over i = 1..n-1 of (x[i] - x[i-1])^2 of a window x
RECURSIVE SumSqDiff(_)
SumSqDiff(x) ==
  IF Len(x) < 2 THEN 0
  ELSE SumSqDiff(SubSeq(x, 1, Len(x) - 1))
         + (x[Len(x)] - x[Len(x) - 1]) * (x[Len(x)] - x[Len(x) - 1])

\* C29: for a window x of n >= 3 samples the statistic is
\* round(sqrt(S / (n - 1))) with S the sum of the squared successive
\* differences of the current window: r is displayed with
\* (r - 1/2)^2 <= S / (n - 1) < (r + 1/2)^2.
C29_StatisticIsRmssd ==
  (op = "rrInterval" /\ Len(rrBuffer) >= 3) =>
    LET S == SumSqDiff(rrBuffer)
        m == Len(rrBuffer) - 1
    IN /\ out = <<EffHrv(hrv)>>
       /\ hrv >= 0
       /\ hrv = 0 \/ (2 * hrv - 1) * (2 * hrv - 1) * m <= 4 * S
       /\ 4 * S < (2 * hrv + 1) * (2 * hrv + 1) * m

C29_Witness ==
  /\ op = "rrInterval"
  /\ rrBuffer = <<800, 810, 850>>
  /\ hrv = 29

\* C30: the window is reset on disconnect: once the disconnect callback has
\* run the window is empty, so no interval of an earlier connection enters a
\* statistic computed after a reconnect.
C30_WindowResetOnDisconnect == ~isConnected => rrBuffer = <<>>

\* ------------------------------------------------------ dispatch and session
\* how many effects of kind k a step produced
CountKind(es, k) == Cardinality({i \in 1..Len(es) : es[i].kind = k})

\* C31: a heart-rate notification that carries a bpm hands it to the push
\* observer exactly once and fulfils every request pending at its arrival,
\* within the handling of that one event.
C31_FanOutOncePerNotification ==
  [][(op' = "notify" /\ CountKind(out', "onHeartRateChange") > 0) =>
        /\ CountKind(out', "onHeartRateChange") = 1
        /\ pendingHeartRateRequests' = <<>>
        /\ \A r \in Range(pendingHeartRateRequests) :
             CountKind(SelectSeq(out', LAMBDA e : e.req = r), "resolve") = 1]_vars

\* C38: within the handling of one notification the push observer is called
\* before any pending request is resolved, and the observer and every resolved
\* request receive the same bpm.
C38_ObserverBeforeResolvers ==
  [][op' = "notify" =>
       \A j \in 1..Len(out') :
         out'[j].kind = "resolve" =>
           /\ \E i \in 1..(j - 1) : out'[i] = EffHeartRate(out'[j].hr)
           /\ promise'[out'[j].req].value = out'[j].hr
           /\ \A i \in 1..Len(out') :
                out'[i].kind \in {"onHeartRateChange", "resolve"} => out'[i].hr = out'[j].hr]_vars

C38_Witness ==
  /\ op = "notify"
  /\ Len(out) = 3
  /\ out[1] = EffHeartRate(75)
  /\ out[2].kind = "resolve" /\ out[2].hr = 75
  /\ out[3].kind = "resolve" /\ out[3].hr = 75
  /\ out[2].req # out[3].req

\* C37: disconnect() called while this.device is not connected (never
\* connected, or already disconnected) changes no state and does not call the
\* disconnect observer, so two disconnect() calls in a row call it at most once.
C37_DisconnectIdleIsNoOp ==
  [][op' = "disconnect" =>
       /\ NotConnected =>
            /\ out' = <<>>
            /\ UNCHANGED <<envVars, connVars, regVars>>
       /\ op = "disconnect" =>
            CountKind(out, "onDisconnect") + CountKind(out', "onDisconnect") <= 1]_vars

C37_Witness ==
  /\ op = "disconnect"
  /\ out = <<>>
  /\ device # NoDevice
  /\ HasGatt(device)
  /\ ~connected[device]
  /\ disconnectListeners[device] = 0

\* the requests that have been pending while no session was up: they were
\* registered in a session that has ended
Orphan ==
  /\ orphaned' = orphaned \cup (IF \A d \in GattDevices : ~connected'[d]
                                THEN Range(pendingHeartRateRequests') ELSE {})
  /\ UNCHANGED <<trail, ready, cancelled, decVars, uiVars>>

\* The service of bluetoothService.ts as in Spec, with the requests that
\* outlive their session recorded.  New requests are refused while no
\* session is up, so only the steps that end a session add to the record.
SessionNext ==
  \/ ConnectCall(Caller) /\ Orphan
  \/ \E d \in Devices : RequestDeviceResolve(Caller, d) /\ Orphan
  \/ RequestDeviceReject(Caller) /\ Orphan
  \/ GattConnectResolve(Caller) /\ Orphan
  \/ GattConnectReject(Caller) /\ Orphan
  \/ StabilizeDone(Caller) /\ Orphan
  \/ \E ok \in BOOLEAN : BatteryDone(Caller, ok) /\ Orphan
  \/ \E ok \in BOOLEAN : SubscribeDone(Caller, ok) /\ Orphan
  \/ Disconnect /\ Orphan
  \/ \E d \in GattDevices : PeerDisconnect(d) /\ Orphan
  \/ RequestHeartRate
  \/ \E r \in Req : TimerFire(r)
  \/ \E d \in GattDevices, e \in Events :
       HeartRateNotification(d, e.hasValue, e.value)

SessionSpec == Init /\ [][SessionNext]_vars

\* C33: a request is only fulfilled by a notification of the session in which
\* it was registered: a request still pending after its session ended is never
\* resolved (by a reading of a later session).
C33_ResolvedInOwnSession ==
  \A r \in orphaned : promise[r].state # "resolved"

\* C35: a connect() call that fails before a new GATT session is opened
\* (platform unsupported, chooser cancelled, device without GATT) leaves an
\* established session untouched: no session goes down and the disconnect
\* observer is not called.
C35_EarlyFailureKeepsSession ==
  [][(/\ op' \in {"connect", "chooserCancelled", "requestDevice"}
      /\ CountKind(out', "throw") > 0)
       => /\ connected' = connected
          /\ CountKind(out', "onDisconnect") = 0]_vars

\* connect() has only ever been called by one caller, one call at a time
OneCaller == \A c \in Calls \ {Caller} : trail[c] = <<>>

\* C36: after any sequence of connect, user disconnect and reconnect to the
\* same device exactly one disconnect listener of the instance is registered
\* while connected, so a peer-initiated disconnect calls the disconnect
\* observer exactly once.
C36_OneListenerWhileConnected ==
  [][\A d \in GattDevices :
       (op' = "peerDisconnect" /\ OneCaller /\ connected[d] /\ ~connected'[d])
         => /\ disconnectListeners[d] = 1
            /\ CountKind(out', "onDisconnect") = 1]_vars

\* ------------------------------------------------------- the UI of part_005
\* App of part_005 with the service of bluetoothService.ts.  The effect with
\* the dependency [connectionState.isConnected] constructs a new
\* BluetoothService and stores it in bluetoothService.current each time
\* isConnected changes; React runs a pending effect before it handles the next
\* click.  An instance that is replaced keeps its listeners on the device,
\* and their observers set the same UI state; device, server and the pending
\* list are those of the instance in bluetoothService.current.  The UI awaits
\* each connect() (one call slot) and never calls disconnect().

\* (mutation: the flag is released only when connect() resolved)
afterConnect_noFinally(resolved, rejected, busy) ==
  IF resolved THEN FALSE ELSE busy

\* connectDevice(): finally { setIsConnecting(false) } once connect() settled
afterConnect(resolved, rejected, busy) ==
  IF resolved \/ rejected THEN FALSE ELSE busy

\* measureHeartRate(): finally { setScanningHeartRate(false) } once the request settled
afterRequest(settled, busy) ==
  IF settled THEN FALSE ELSE busy

\* what a step of the service does to the UI state: the disconnect observer
\* (setConnectionState isConnected: false), then the continuation of
\* connectDevice() if connect() returned or threw in this step
Render(busy) ==
  /\ isConnected' = IF Returned THEN TRUE
                    ELSE IF CountKind(out', "onDisconnect") > 0 THEN FALSE
                    ELSE isConnected
  /\ isConnecting' = afterConnect(Returned, Threw, busy)
  /\ UNCHANGED <<scanningHeartRate, effectDep, rrBuffer, hrv, stream, arrivals,
                 histVars, decVars>>

\* the effect of lines 42-97 runs for a render with a changed isConnected:
\* bluetoothService.current = new BluetoothService(...)
useEffect ==
  /\ effectDep # isConnected
  /\ effectDep' = isConnected
  /\ device' = NoDevice
  /\ server' = NoDevice
  /\ pendingHeartRateRequests' = <<>>
  /\ op' = "useEffect"
  /\ out' = <<>>
  /\ UNCHANGED <<envVars, connected, disconnectListeners, hrListeners, glListeners,
                 pc, awaited, timers, promise, histVars, decVars,
                 isConnected, rrBuffer, hrv, stream, arrivals,
                 isConnecting, scanningHeartRate>>

\* connectDevice(): the connect button (rendered while not connected) or
\* measureHeartRate() while not connected
connectDevice ==
  /\ effectDep = isConnected
  /\ ~isConnected
  /\ ConnectCall(Caller)
  /\ Render(TRUE)

\* measureHeartRate() while connected: requestHeartRate() on
\* bluetoothService.current, awaited inside try / catch / finally
measureHeartRate ==
  /\ effectDep = isConnected
  /\ isConnected
  /\ NextReq \in Req
  /\ LET r == NextReq IN
     /\ op' = "measureHeartRate"
     /\ IF ~CanRequest(device, connected)
        THEN /\ promise' = [promise EXCEPT ![r] = PromiseReject(Created, "NotConnected")]
             /\ out' = <<EffReject(r, "NotConnected")>>
             /\ scanningHeartRate' = afterRequest(TRUE, TRUE)
             /\ UNCHANGED <<pendingHeartRateRequests, timers>>
        ELSE /\ promise' = [promise EXCEPT ![r] = Created]
             /\ timers' = setTimeout(timers, r)
             /\ pendingHeartRateRequests' = Append(pendingHeartRateRequests, r)
             /\ out' = <<>>
             /\ scanningHeartRate' = afterRequest(FALSE, TRUE)
  /\ UNCHANGED <<envVars, connVars, histVars, decVars,
                 isConnected, rrBuffer, hrv, stream, arrivals, isConnecting, effectDep>>

AppNext ==
  \/ useEffect
  \/ connectDevice
  \/ measureHeartRate
  \/ \E d \in Devices : RequestDeviceResolve(Caller, d) /\ Render(isConnecting)
  \/ RequestDeviceReject(Caller) /\ Render(isConnecting)
  \/ GattConnectResolve(Caller) /\ Render(isConnecting)
  \/ GattConnectReject(Caller) /\ Render(isConnecting)
  \/ StabilizeDone(Caller) /\ Render(isConnecting)
  \/ \E ok \in BOOLEAN : BatteryDone(Caller, ok) /\ Render(isConnecting)
  \/ \E ok \in BOOLEAN : SubscribeDone(Caller, ok) /\ Render(isConnecting)
  \/ \E d \in GattDevices : PeerDisconnect(d) /\ Render(isConnecting)
  \/ \E d \in GattDevices, e \in Events :
       HeartRateNotification(d, e.hasValue, e.value)

AppSpec == Init /\ [][AppNext]_vars

\* C32: the instance the UI calls is the one that owns the live connection:
\* once a connect() has made the UI state connected and while that session is
\* up, a requestHeartRate() issued by measureHeartRate() is registered (and a
\* notification can fulfil it), not rejected as not connected.
C32_UiCallsConnectedInstance ==
  [][(op' = "measureHeartRate" /\ \E d \in GattDevices : connected[d])
       => /\ out' = <<>>
          /\ Len(pendingHeartRateRequests') = Len(pendingHeartRateRequests) + 1]_vars

\* C34: the UI state is set to connected only while the session opened by
\* that connect() is up: a peer disconnect during the stabilization delay or
\* a subscription attempt is not followed by a report of success.
C34_NoSuccessAfterPeerDisconnect ==
  [][(~isConnected /\ isConnected') => \E d \in GattDevices : connected'[d]]_vars

====
